---- MODULE Spec2Model ----
(***************************************************************************)
(* Model of the venue-traffic pipeline: the /analyze request handler       *)
(* (main.py), the routing adapter (generate_token.py), the decision script *)
(* (output.py) and the chat front end (rag.py), over the two JSON log      *)
(* files, the audit log and the chat log.                                  *)
(*                                                                         *)
(* Python values are modelled as follows.  A value that may be None is an  *)
(* option: <<>> is None and <<v>> is the value v.  A dict is a function    *)
(* from key strings to values.  Text that the code scans or parses (the    *)
(* venue name, an LLM reply) is a sequence of tokens, and the scanning and *)
(* parsing are computed on it.                                             *)
(***************************************************************************)
EXTENDS Integers, Sequences, FiniteSets, TLC

\* ------------------------------------------------------------------ bounds

\* Number of /analyze requests a behaviour may contain.
MaxReq == 2

\* Number of runs of the decision script a behaviour may contain.
MaxRuns == 1

\* Number of chat messages a behaviour may contain.
MaxTurns == 2

Reqs == 1..MaxReq

\* ----------------------------------------------------------- Python values

None == <<>>

Some(v) == <<v>>

Min(S) == CHOOSE x \in S : \A y \in S : x <= y

Max(S) == CHOOSE x \in S : \A y \in S : x >= y

\* dict.get(key): the value, or None when the key is absent.
dict_get(d, k) == IF k \in DOMAIN d THEN Some(d[k]) ELSE None

\* ------------------------------------------------------------------- text

\* str.strip() on a sequence of characters: drops leading and trailing blanks.
RECURSIVE lstrip(_)
lstrip(s) == IF s # <<>> /\ Head(s) = " " THEN lstrip(Tail(s)) ELSE s

RECURSIVE rstrip(_)
rstrip(s) ==
    IF s # <<>> /\ s[Len(s)] = " " THEN rstrip(SubSeq(s, 1, Len(s) - 1)) ELSE s

strip(s) == rstrip(lstrip(s))

\* Tokens of an LLM reply: braces, prose, and the members of a JSON object.
\* A member carries its key and the shape of its value: "dict_sev" is an
\* object holding a severity, "dict" an object without one, "scalar" a value
\* that is no object (a string, a number, a list, null).
Tok(t) == [t |-> t, key |-> "", shape |-> ""]

Member(k, shape) == [t |-> "member", key |-> k, shape |-> shape]

LBrace == Tok("{")

RBrace == Tok("}")

Prose == Tok("x")

Positions(s, tok) == {i \in 1..Len(s) : s[i] = tok}

\* re.search(r"\{[\s\S]*\}", content): the leftmost "{" that is followed by
\* a "}", greedily extended to the last "}"; None when there is no match.
re_search(content) ==
    LET opens == Positions(content, LBrace)
        closes == Positions(content, RBrace)
    IN  IF opens = {} \/ closes = {} \/ Max(closes) < Min(opens)
        THEN None
        ELSE Some(SubSeq(content, Min(opens), Max(closes)))

\* The value json.loads builds for a member.
JsonValue(m) == [origin |-> "llm", shape |-> m.shape]

\* json.loads on text that starts with "{": the dict, or None when the text
\* is no single JSON object (json.loads raises).  A repeated key keeps its
\* last value.
json_loads(text) ==
    IF /\ Len(text) >= 2
       /\ text[1] = LBrace
       /\ text[Len(text)] = RBrace
       /\ \A i \in 2..(Len(text) - 1) : text[i].t = "member"
    THEN LET idx == 2..(Len(text) - 1)
             keys == {text[i].key : i \in idx}
         IN  Some([k \in keys |->
                     JsonValue(text[Max({i \in idx : text[i].key = k})])])
    ELSE None

\* The trigger tag of the chat prompt and the bracket that closes it, as
\* tokens of a chat reply; the other tokens are characters.
NeedTag == "[NEED_ANALYSIS:"

CloseBracket == "]"

\* "[NEED_ANALYSIS:" in ai_response
has_tag(text) == Positions(text, NeedTag) # {}

\* text.split(sep)[0]: the text before the first sep, all of it without one.
before_first(text, sep) ==
    IF Positions(text, sep) = {} THEN text
    ELSE SubSeq(text, 1, Min(Positions(text, sep)) - 1)

\* ai_response.split("[NEED_ANALYSIS:")[1].split("]")[0].strip(), for a
\* response that holds the tag.
venue_to_analyze(text) ==
    LET rest == SubSeq(text, Min(Positions(text, NeedTag)) + 1, Len(text))
    IN  strip(before_first(before_first(rest, NeedTag), CloseBracket))

\* What query_openrouter returns: the reply's content, or a message when
\* the call raises.
SystemErrorText == <<"System Error: Unable to contact AI engine.">>

query_openrouter(reply) ==
    IF reply.kind = "raise" THEN SystemErrorText ELSE reply.content

\* load_context: the parsed content of each log that exists and parses.
load_context(input, output) ==
    [input |-> IF input.kind \in {"list", "object"} THEN Some(input) ELSE None,
     output |-> IF output.kind \in {"list", "object"} THEN Some(output) ELSE None]

\* ----------------------------------------------------------------- adapters

\* geocode_venue with fallback coordinates in place of None on an exception.
geocode_venue_default(reply) ==
    IF reply.kind = "raise" THEN Some([lat |-> 0, lon |-> 0])
    ELSE IF reply.data = <<>> THEN None
    ELSE Some([lat |-> reply.data[1].lat, lon |-> reply.data[1].lon])

\* geocode_venue: the coordinates of the first match; None when the search
\* has no match and None when the request or the decoding raises.
geocode_venue(reply) ==
    IF reply.kind = "raise" THEN None
    ELSE IF reply.data = <<>> THEN None
    ELSE Some([lat |-> reply.data[1].lat, lon |-> reply.data[1].lon])

\* fetch_live_data: always a string; a failure is reported in the string.
fetch_live_data(reply) ==
    IF reply.kind = "raise" THEN "Live search unavailable"
    ELSE IF reply.results = 0 THEN "No reliable live data found."
    ELSE "results"

\* Distance of an element from the venue.  Elements carry their distance in
\* units of 10 m in place of coordinates.
haversine(e) == e.dist

\* nearest_of taking the last element of minimal key.
nearest_of_last(elements) ==
    LET best == Min({haversine(elements[i]) : i \in 1..Len(elements)})
    IN  elements[Max({i \in 1..Len(elements) : haversine(elements[i]) = best})]

\* min(elements, key=...): the first element of minimal key.
nearest_of(elements) ==
    LET best == Min({haversine(elements[i]) : i \in 1..Len(elements)})
    IN  elements[Min({i \in 1..Len(elements) : haversine(elements[i]) = best})]

\* fetch_nearest_metro reporting an empty answer as a failed lookup.
fetch_nearest_metro_strict(reply) ==
    IF reply.kind = "raise" \/ reply.elements = <<>>
    THEN [station_name |-> "Metro lookup failed", error |-> "exception"]
    ELSE LET nearest == nearest_of(reply.elements)
         IN  [station_name |-> nearest.name,
              distance_km |-> Some(haversine(nearest)),
              osm_id |-> Some(nearest.id)]

\* fetch_nearest_metro: the sentinel for an empty answer, the nearest
\* station otherwise, an error dict when anything raises.
fetch_nearest_metro(reply) ==
    IF reply.kind = "raise"
    THEN [station_name |-> "Metro lookup failed", error |-> "exception"]
    ELSE IF reply.elements = <<>>
    THEN [station_name |-> "No metro station found within 5km",
          distance_km |-> None, osm_id |-> None]
    ELSE LET nearest == nearest_of(reply.elements)
         IN  [station_name |-> nearest.name,
              distance_km |-> Some(haversine(nearest)),
              osm_id |-> Some(nearest.id)]

\* str.lower() and str.title() on the condition words the weather service
\* uses; a word outside the table is one these leave unchanged.
ConditionWords ==
    <<"thunderstorm", "tornado", "rain", "drizzle", "snow", "mist", "fog", "haze",
      "smoke", "clear", "clouds">>

TitledWords ==
    <<"Thunderstorm", "Tornado", "Rain", "Drizzle", "Snow", "Mist", "Fog", "Haze",
      "Smoke", "Clear", "Clouds">>

lower(s) ==
    IF \E i \in 1..Len(TitledWords) : TitledWords[i] = s
    THEN ConditionWords[CHOOSE i \in 1..Len(TitledWords) : TitledWords[i] = s]
    ELSE s

title(s) ==
    IF \E i \in 1..Len(ConditionWords) : ConditionWords[i] = s
    THEN TitledWords[CHOOSE i \in 1..Len(ConditionWords) : ConditionWords[i] = s]
    ELSE s

\* traffic_weather_impact with the temperature tested before the rain and
\* mist words.
traffic_weather_impact_heat_first(condition, temp) ==
    IF condition \in {"thunderstorm", "tornado"} THEN "SEVERE"
    ELSE IF temp > 38 THEN "LOW-MODERATE"
    ELSE IF condition \in {"rain", "drizzle", "snow"} THEN "HIGH"
    ELSE IF condition \in {"mist", "fog", "haze", "smoke"} THEN "MODERATE"
    ELSE "LOW"

\* The decision table of fetch_weather.
traffic_weather_impact(condition, temp) ==
    IF condition \in {"thunderstorm", "tornado"} THEN "SEVERE"
    ELSE IF condition \in {"rain", "drizzle", "snow"} THEN "HIGH"
    ELSE IF condition \in {"mist", "fog", "haze", "smoke"} THEN "MODERATE"
    ELSE IF temp > 38 THEN "LOW-MODERATE"
    ELSE "LOW"

\* fetch_weather; key is whether OPENWEATHER_API_KEY is set.
fetch_weather(key, reply) ==
    IF ~key THEN [error |-> "OPENWEATHER_API_KEY not set in .env"]
    ELSE IF reply.kind = "raise" THEN [error |-> "Weather fetch failed: exception"]
    ELSE IF reply.cod # 200 THEN [error |-> "Weather fetch failed"]
    ELSE [condition |-> title(reply.description),
          temperature_c |-> reply.temp,
          traffic_weather_impact |->
              traffic_weather_impact(lower(reply.main), reply.temp)]

\* get_mappls_token: the token, or None when the reply has no access_token
\* or the request raises.
get_mappls_token(reply) ==
    IF reply.kind = "raise" THEN None
    ELSE IF ~reply.has_token THEN None
    ELSE Some("token")

\* congestion_level with the thresholds taken inclusively.
congestion_level_inclusive(delay10) ==
    IF delay10 >= 100 THEN "CRITICAL"
    ELSE IF delay10 >= 50 THEN "HIGH"
    ELSE IF delay10 >= 20 THEN "MODERATE"
    ELSE "LOW"

\* Congestion classification of a delay given in tenths of a minute.
congestion_level(delay10) ==
    IF delay10 > 100 THEN "CRITICAL"
    ELSE IF delay10 > 50 THEN "HIGH"
    ELSE IF delay10 > 20 THEN "MODERATE"
    ELSE "LOW"

\* Traffic delay in tenths of a minute.  Durations are seconds in multiples
\* of 30, for which the float quotients by 60 and their difference are exact;
\* a route without duration_without_traffic has no delay.
delay_min(route) ==
    LET d == route.duration
        n == IF route.duration_without_traffic = None
             THEN route.duration ELSE route.duration_without_traffic[1]
    IN  IF d - n > 0 THEN (d - n) \div 6 ELSE 0

\* Average speed in tenths of a km/h, from metres and seconds, rounded to the
\* nearest tenth.
avg_speed(route) ==
    IF route.duration = 0 THEN 0
    ELSE (route.distance * 72 + route.duration) \div (2 * route.duration)

\* The part of fetch_mappls_traffic after the token: the value it returns
\* for the routing reply.  None models the bare "return".  Distances are in
\* units of 10 m, times in tenths of a minute.
mappls_route_result(reply) ==
    IF reply.kind = "raise"
    THEN Some([error |-> "exception", congestion_level |-> "UNKNOWN"])
    ELSE IF reply.status # 200 THEN None
    ELSE IF reply.routes = <<>> THEN None
    ELSE LET route == reply.routes[1]
         IN  Some([distance_km |-> route.distance \div 10,
                   travel_time_min |-> route.duration \div 6,
                   traffic_delay_min |-> delay_min(route),
                   average_speed_kmh |-> avg_speed(route),
                   congestion_level |-> congestion_level(delay_min(route))])

\* What fetch_mappls_traffic returns when get_mappls_token gave no token.
mappls_no_token == None

\* parse_forecast with an empty forecast in place of the exception.
parse_forecast_default(content) ==
    LET match == re_search(content)
    IN  IF match = None \/ json_loads(match[1]) = None
        THEN Some([k \in {"venue"} |-> [origin |-> "default", shape |-> "dict"]])
        ELSE json_loads(match[1])

\* analyze_venue after the completion call: the forecast parsed from the
\* reply's content, or None when it raises (no match, or json.loads raises);
\* the except clause turns either into HTTPException(500).
parse_forecast(content) ==
    LET match == re_search(content)
    IN  IF match = None THEN None ELSE json_loads(match[1])

\* ------------------------------------------------------------------- merge

AdapterKeys ==
    {"location", "nearest_metro_station", "weather", "mappls_live_traffic"}

\* The mappls_live_traffic group: five mappls_traffic.get(...) reads.
mappls_view(mt) ==
    [distance |-> dict_get(mt, "distance_km"),
     travel_time |-> dict_get(mt, "travel_time_min"),
     traffic_delay |-> dict_get(mt, "traffic_delay_min"),
     average_speed |-> dict_get(mt, "average_speed_kmh"),
     congestion |-> dict_get(mt, "congestion_level")]

\* merge_result with the forecast unpacked last: its keys win.
merge_result_forecast_last(tr, co, metro, weather, mt) ==
    LET groups == [location |-> [latitude |-> co.lat, longitude |-> co.lon],
                   nearest_metro_station |-> metro,
                   weather |-> weather,
                   mappls_live_traffic |-> mappls_view(mt)]
    IN  [k \in DOMAIN tr \cup AdapterKeys |->
            IF k \in DOMAIN tr THEN tr[k] ELSE groups[k]]

\* The dict display of analyze: the forecast's keys, then the four groups.
merge_result(tr, co, metro, weather, mt) ==
    LET groups == [location |-> [latitude |-> co.lat, longitude |-> co.lon],
                   nearest_metro_station |-> metro,
                   weather |-> weather,
                   mappls_live_traffic |-> mappls_view(mt)]
    IN  [k \in DOMAIN tr \cup AdapterKeys |->
            IF k \in AdapterKeys THEN groups[k] ELSE tr[k]]

\* ------------------------------------------------------------------- files

\* A JSON file: absent, of zero bytes ("empty", as open(..., "w") leaves it),
\* unparsable bytes ("corrupt"), a JSON array ("list", val its elements) or
\* another JSON value ("object", val = <<the value>>).
AbsentFile == [kind |-> "absent", val |-> <<>>]

EmptyFile == [kind |-> "empty", val |-> <<>>]

CorruptFile == [kind |-> "corrupt", val |-> <<>>]

ListFile(recs) == [kind |-> "list", val |-> recs]

ObjectFile(d) == [kind |-> "object", val |-> <<d>>]

\* read_log that fails to notice unparsable content and hands back a
\* record salvaged from it.
read_log_salvage(file) ==
    IF file.kind = "absent" THEN <<>>
    ELSE IF file.kind = "empty" THEN <<>>
    ELSE IF file.kind = "corrupt" THEN <<[salvaged |-> TRUE]>>
    ELSE IF file.kind = "list" THEN file.val
    ELSE IF DOMAIN file.val[1] = {} THEN <<>> ELSE <<file.val[1]>>

\* The read half of the append in analyze and in save_output: the existing
\* array, a non-list value wrapped in a list when truthy, [] when the file
\* is absent or json.load raises.
read_log(file) ==
    IF file.kind = "absent" THEN <<>>
    ELSE IF file.kind \in {"empty", "corrupt"} THEN <<>>
    ELSE IF file.kind = "list" THEN file.val
    ELSE IF DOMAIN file.val[1] = {} THEN <<>> ELSE <<file.val[1]>>

\* dump_log with the new record put first.
dump_log_prepend(inputs, result) == ListFile(<<result>> \o inputs)

\* inputs.append(result); json.dump(inputs, f): the array written.
dump_log(inputs, result) == ListFile(Append(inputs, result))

\* The files a completed json.dump can leave.  The writer's descriptor
\* writes from offset 0 of the file as it is now: onto the zero bytes its own
\* open left, the file is the array; onto bytes another writer put there
\* since, the file is the array when the array's text is at least as long,
\* and otherwise the array's text followed by the tail of the other text.
dump_outcomes(file, inputs, result) ==
    IF file.kind = "empty" THEN {dump_log(inputs, result)}
    ELSE {dump_log(inputs, result), CorruptFile}

\* load_input taking the first element of the array.
load_input_first(file) ==
    IF file.kind \in {"absent", "empty", "corrupt"} THEN None
    ELSE IF file.kind = "list"
    THEN IF file.val = <<>> THEN None ELSE Some(file.val[1])
    ELSE Some(file.val[1])

\* load_input of the decision script: the last element of the array, or the
\* value itself when the file holds no array; None when it raises (missing
\* file, unparsable file, empty array).
load_input(file) ==
    IF file.kind \in {"absent", "empty", "corrupt"} THEN None
    ELSE IF file.kind = "list"
    THEN IF file.val = <<>> THEN None ELSE Some(file.val[Len(file.val)])
    ELSE Some(file.val[1])

\* str.find / str.rfind on tokens: 0-based index, -1 when absent.
str_find(s, tok) == IF Positions(s, tok) = {} THEN -1 ELSE Min(Positions(s, tok)) - 1

str_rfind(s, tok) == IF Positions(s, tok) = {} THEN -1 ELSE Max(Positions(s, tok)) - 1

\* Python's s[a:b]: a negative index counts from the end, both are clamped.
py_index(n, len) ==
    IF n < 0 THEN (IF len + n < 0 THEN 0 ELSE len + n)
    ELSE IF n > len THEN len ELSE n

py_slice(s, a, b) == SubSeq(s, py_index(a, Len(s)) + 1, py_index(b, Len(s)))

\* parse_decision with an empty decision in place of the exception.
parse_decision_default(content) ==
    IF json_loads(py_slice(content, str_find(content, LBrace),
                           str_rfind(content, RBrace) + 1)) = None
    THEN Some([k \in {"decision_summary"} |-> [origin |-> "default", shape |-> "scalar"]])
    ELSE json_loads(py_slice(content, str_find(content, LBrace),
                             str_rfind(content, RBrace) + 1))

\* generate_decision after the completion call: the decision parsed from
\* the reply's content, or None when json.loads raises.
parse_decision(content) ==
    LET start == str_find(content, LBrace)
        end == str_rfind(content, RBrace) + 1
    IN  json_loads(py_slice(content, start, end))

\* ------------------------------------------------------------------- state

VARIABLES
    scenario,    \* fixed per behaviour: how many requests arrive, whether
                 \* handlers and script runs overlap, whether upstream and
                 \* disk faults occur, whether OPENWEATHER_API_KEY is set,
                 \* whether the transit, weather and routing replies sweep
                 \* the adapters' decision tables, whether the requests come
                 \* from the chat front end
    req,         \* per request: position, the locals of analyze, the response
    trace,       \* per request: the endpoints and files it touched, in
                 \* order, each with what came back
    before,      \* per request: the two logs as they were when it arrived
    inputFile,   \* data/input.json
    eventLog,    \* data/event_log.jsonl: the lines appended
    log0,        \* data/input.json as the behaviour found it
    appended,    \* the records whose rewrite of data/input.json completed
    run,         \* the decision script: position, locals, runs started
    outputFile,  \* data/output.json
    chat         \* the chat front end: rag_mode, the locals of
                 \* handle_message, the calls of the turn, data/chat_log.jsonl

vars ==
    <<scenario, req, trace, before, inputFile, eventLog, log0, appended, run,
      outputFile, chat>>

\* The locals of analyze before any is assigned.
NewFrame ==
    [pc |-> "idle", request |-> None, venue_name |-> None, coords |-> None,
     live_data |-> None, content |-> None, traffic_result |-> None,
     metro_result |-> None, weather_result |-> None, token |-> None,
     mappls_traffic |-> None, result |-> None, inputs |-> None, status |-> 0]

\* The request is answered: the frame is gone; the request, the status and
\* the body of the response remain.
Respond(f, code, body) ==
    [NewFrame EXCEPT !.pc = "done", !.request = f.request, !.status = code,
                     !.result = body]

\* The locals of the decision script; before is data/output.json as the
\* run found it, at the step the run ended at.
NewRun == [pc |-> "idle", input_data |-> None, content |-> None, decision |-> None,
           outputs |-> None, before |-> None, at |-> "idle", runs |-> 0]

\* The script has ended, "done" or "failed" (an uncaught exception): its
\* locals are gone.
Exit(outcome) ==
    [NewRun EXCEPT !.pc = outcome, !.before = run.before, !.at = run.pc,
                   !.runs = run.runs]

\* The chat front end between turns: user_data without rag_mode, no locals.
\* calls, asked, replies and sent describe the last turn: the calls made, the
\* arguments of each query of the model, its answers, the message sent.
NewChat ==
    [pc |-> "idle", rag_mode |-> FALSE, turns |-> 0, user_text |-> None,
     context |-> None, ai_response |-> None, venue |-> None, request |-> 0,
     calls |-> <<>>, asked |-> <<>>, replies |-> <<>>, sent |-> None,
     log |-> <<>>]

\* handle_message has ended: its locals are gone.
EndTurn(c) ==
    [c EXCEPT !.pc = "idle", !.user_text = None, !.context = None,
              !.ai_response = None, !.venue = None, !.request = 0]

\* --------------------------------------------------------------- the inputs

Venues ==
    IF scenario.chat THEN {chat.venue[1]}
    ELSE IF scenario.faults
    THEN {<<>>, <<" ", " ">>, <<"a">>, <<" ", "a", " ">>}
    ELSE {<<" ">>, <<" ", "a", " ">>}

GeoReplies ==
    IF scenario.faults
    THEN {[kind |-> "raise", data |-> <<>>], [kind |-> "ok", data |-> <<>>],
          [kind |-> "ok", data |-> <<[lat |-> 18, lon |-> 73], [lat |-> 19, lon |-> 74]>>]}
    ELSE {[kind |-> "ok", data |-> <<[lat |-> 18, lon |-> 73]>>],
          [kind |-> "ok", data |-> <<[lat |-> 19, lon |-> 74]>>]}

SearchReplies ==
    IF scenario.faults
    THEN {[kind |-> "raise", results |-> 0], [kind |-> "ok", results |-> 0]}
    ELSE {[kind |-> "ok", results |-> 1]}

ForecastKeys == {"venue", "event_context", "traffic_prediction", "impact_zones"}

\* A reply holding one JSON object with the given members, as text.
ObjectText(members) == <<LBrace>> \o members \o <<RBrace>>

FullForecast ==
    <<Member("venue", "dict"), Member("event_context", "dict"),
      Member("traffic_prediction", "dict_sev"), Member("impact_zones", "scalar")>>

LlmContents ==
    IF scenario.faults
    THEN {<<Prose>>,
          <<RBrace, Prose, LBrace>>,
          <<LBrace, Prose, RBrace>>,
          ObjectText(FullForecast) \o ObjectText(FullForecast),
          <<Prose>> \o ObjectText(FullForecast) \o <<Prose>>,
          ObjectText(FullForecast),
          ObjectText(SubSeq(FullForecast, 1, 2)),
          ObjectText(<<Member("traffic_prediction", "scalar")>>
                         \o FullForecast
                         \o <<Member("weather", "dict"), Member("location", "dict"),
                              Member("nearest_metro_station", "scalar"),
                              Member("mappls_live_traffic", "dict")>>),
          ObjectText(FullForecast \o <<Member("traffic_prediction", "scalar")>>)}
    ELSE {ObjectText(FullForecast)}

LlmReplies ==
    {[kind |-> "ok", content |-> c] : c \in LlmContents}
        \cup (IF scenario.faults THEN {[kind |-> "raise", content |-> <<>>]} ELSE {})

Station(id, dist) == [id |-> id, name |-> "Station", dist |-> dist]

\* Every list of one to three stations at one of two distances.
StationLists ==
    LET D == {45, 120}
    IN  {<<Station(1, a)>> : a \in D}
            \cup {<<Station(1, a), Station(2, b)>> : a \in D, b \in D}
            \cup {<<Station(1, a), Station(2, b), Station(3, c)>> : a \in D, b \in D, c \in D}

MetroReplies ==
    IF scenario.sweep
    THEN {[kind |-> "ok", elements |-> e] : e \in StationLists}
    ELSE IF scenario.faults
    THEN {[kind |-> "raise", elements |-> <<>>], [kind |-> "ok", elements |-> <<>>],
          [kind |-> "ok", elements |-> <<Station(1, 120), Station(2, 45)>>]}
    ELSE {[kind |-> "ok", elements |-> <<Station(1, 120), Station(2, 45)>>]}

Weather(main, temp) ==
    [kind |-> "ok", cod |-> 200, main |-> main, description |-> main, temp |-> temp]

\* The service's main word, capitalised as it sends it, with the
\* description in lower case.
WeatherSweep ==
    {[kind |-> "ok", cod |-> 200, main |-> TitledWords[i],
      description |-> ConditionWords[i], temp |-> t] :
        i \in 1..Len(TitledWords), t \in {25, 38, 39}}

WeatherReplies ==
    IF scenario.sweep THEN WeatherSweep
    ELSE IF scenario.faults
    THEN {[kind |-> "raise", cod |-> 0, main |-> "", description |-> "", temp |-> 0],
          [kind |-> "ok", cod |-> 401, main |-> "", description |-> "", temp |-> 0],
          Weather("rain", 25)}
    ELSE {Weather("rain", 25)}

TokenReplies ==
    IF scenario.faults
    THEN {[kind |-> "raise", has_token |-> FALSE], [kind |-> "ok", has_token |-> FALSE],
          [kind |-> "ok", has_token |-> TRUE]}
    ELSE {[kind |-> "ok", has_token |-> TRUE]}

Route(distance, duration, free) ==
    [distance |-> distance, duration |-> duration, duration_without_traffic |-> free]

\* Routes of 21 km whose delay over 30 min of free flow is -5, 0, 2, 2.5, 5,
\* 5.5, 10, 10.5 and 12 min, and routes without duration_without_traffic.
RouteSweep ==
    {Route(21000, 1800 + d, Some(1800)) : d \in {-300, 0, 120, 150, 300, 330, 600, 630, 720}}
        \cup {Route(21000, 2520, None), Route(21000, 0, None)}

RouteReplies ==
    IF scenario.sweep
    THEN {[kind |-> "ok", status |-> 200, routes |-> <<route>>] : route \in RouteSweep}
    ELSE IF scenario.faults
    THEN {[kind |-> "raise", status |-> 0, routes |-> <<>>],
          [kind |-> "ok", status |-> 404, routes |-> <<>>],
          [kind |-> "ok", status |-> 200, routes |-> <<>>],
          [kind |-> "ok", status |-> 200, routes |-> <<Route(21000, 2520, Some(1800))>>]}
    ELSE {[kind |-> "ok", status |-> 200, routes |-> <<Route(21000, 2520, Some(1800))>>]}

\* Whether a file operation succeeds.
IoOutcomes == IF scenario.faults \/ scenario.chat THEN {TRUE, FALSE} ELSE {TRUE}

\* A record written by an earlier run of the service.
OldRecord ==
    merge_result(json_loads(ObjectText(FullForecast))[1], [lat |-> 18, lon |-> 73],
                 fetch_nearest_metro([kind |-> "ok", elements |-> <<>>]),
                 fetch_weather(TRUE, Weather("mist", 30)),
                 mappls_route_result([kind |-> "raise"])[1])

DecisionText ==
    ObjectText(<<Member("decision_summary", "scalar"), Member("priority_level", "scalar")>>)

DecisionReplies ==
    IF scenario.faults
    THEN {[kind |-> "raise", content |-> <<>>],
          [kind |-> "ok", content |-> <<Prose>>],
          [kind |-> "ok", content |-> <<Prose, RBrace>>],
          [kind |-> "ok", content |-> <<LBrace, Prose, RBrace>>],
          [kind |-> "ok", content |-> <<Prose>> \o DecisionText \o <<Prose>>],
          [kind |-> "ok", content |-> DecisionText]}
    ELSE {[kind |-> "ok", content |-> DecisionText]}

\* What the user writes: one message per turn, no two in a row alike.
UserTexts == IF chat.turns % 2 = 0 THEN {<<"q">>} ELSE {<<"r">>}

\* What the chat model answers: prose, the tag with a venue, the tag with a
\* blank venue, the tag without its bracket, the tag twice.
ChatContents ==
    {<<"a">>,
     <<NeedTag, " ", "a", CloseBracket>>,
     <<NeedTag, " ", CloseBracket>>,
     <<"a", NeedTag, "a">>,
     <<NeedTag, "a", NeedTag, "b", CloseBracket>>}

ChatReplies ==
    {[kind |-> "ok", content |-> c] : c \in ChatContents}
        \cup {[kind |-> "raise", content |-> <<>>]}

\* -------------------------------------------------------------------- Init

InitFrames ==
    /\ req = [r \in Reqs |-> NewFrame]
    /\ trace = [r \in Reqs |-> <<>>]
    /\ before = [r \in Reqs |-> None]
    /\ eventLog = <<>>
    /\ log0 = inputFile
    /\ appended = <<>>
    /\ run = NewRun
    /\ chat = NewChat

\* One request and the script, one after the other, with every upstream
\* and disk fault.
Faulty(key) ==
    [requests |-> 1, overlap |-> FALSE, faults |-> TRUE, weather_key |-> key,
     sweep |-> FALSE, chat |-> FALSE]

Init ==
    /\ \/ /\ scenario = Faulty(TRUE)
          /\ inputFile \in {AbsentFile, CorruptFile, ListFile(<<>>),
                            ListFile(<<OldRecord>>), ObjectFile(OldRecord)}
          /\ outputFile = AbsentFile
       \/ /\ scenario = Faulty(TRUE)
          /\ inputFile = ListFile(<<OldRecord>>)
          /\ outputFile = CorruptFile
       \/ /\ scenario = Faulty(FALSE)
          /\ inputFile = AbsentFile
          /\ outputFile = AbsentFile
    /\ InitFrames

\* Requests served one after another, no faults.
InitSeq ==
    /\ scenario = [requests |-> MaxReq, overlap |-> FALSE, faults |-> FALSE,
                   weather_key |-> TRUE, sweep |-> FALSE, chat |-> FALSE]
    /\ inputFile \in {AbsentFile, ListFile(<<>>), ListFile(<<OldRecord>>)}
    /\ outputFile = AbsentFile
    /\ InitFrames

\* Requests overlapping freely, no faults: the interleavings of the
\* handlers over the shared files.
InitRace ==
    /\ scenario = [requests |-> MaxReq, overlap |-> TRUE, faults |-> FALSE,
                   weather_key |-> TRUE, sweep |-> FALSE, chat |-> FALSE]
    /\ inputFile \in {AbsentFile, ListFile(<<>>), ListFile(<<OldRecord>>)}
    /\ outputFile = AbsentFile
    /\ InitFrames

\* One request, no faults, the transit, weather and routing replies swept.
InitSweep ==
    /\ scenario = [requests |-> 1, overlap |-> FALSE, faults |-> FALSE,
                   weather_key |-> TRUE, sweep |-> TRUE, chat |-> FALSE]
    /\ inputFile = AbsentFile
    /\ outputFile = AbsentFile
    /\ InitFrames

\* The chat front end in front of the service: requests come from chat
\* turns only.
InitChat ==
    /\ scenario = [requests |-> MaxReq, overlap |-> FALSE, faults |-> FALSE,
                   weather_key |-> TRUE, sweep |-> FALSE, chat |-> TRUE]
    /\ inputFile = AbsentFile
    /\ outputFile = AbsentFile
    /\ InitFrames

\* ---------------------------------------------------------------- /analyze

Stopped == {"idle", "done", "failed"}

\* The number of handlers and script runs under way.  The script is run
\* between requests and, in front of the chat, between turns.
Busy ==
    Cardinality({r \in Reqs : req[r].pc \notin {"idle", "done"}})
        + (IF run.pc \in Stopped THEN 0 ELSE 1)

Range(s) == {s[i] : i \in 1..Len(s)}

\* The endpoints and files request r has touched, and what one returned.
Endpoints(r) == {trace[r][i].to : i \in 1..Len(trace[r])}

GotFrom(r, name) == {trace[r][i].got : i \in {j \in 1..Len(trace[r]) : trace[r][j].to = name}}

\* What came back from an endpoint, for the trace.
Got(reply, answer) == IF reply.kind = "raise" THEN "raise" ELSE answer

Touched(r, name, got) == trace' = [trace EXCEPT ![r] = Append(@, [to |-> name, got |-> got])]

Logs == <<inputFile, eventLog, appended, outputFile>>

\* venue_name = request.venue.strip(); an empty name is answered 400.
Start(r) ==
    /\ req[r].pc = "idle"
    /\ r <= scenario.requests
    /\ scenario.chat => chat.pc = "posted"
    /\ run.pc \in Stopped
    /\ scenario.overlap \/ Busy = 0
    /\ \A q \in Reqs : q < r => req[q].pc # "idle"
    /\ \E venue \in Venues :
        LET f == [req[r] EXCEPT !.request = Some(venue)]
        IN  req' = [req EXCEPT ![r] =
                      IF strip(venue) = <<>> THEN Respond(f, 400, None)
                      ELSE [f EXCEPT !.pc = "geocode", !.venue_name = Some(strip(venue))]]
    /\ before' = [before EXCEPT ![r] = Some([obs |-> inputFile, audit |-> eventLog])]
    /\ chat' = IF scenario.chat THEN [chat EXCEPT !.pc = "wait", !.request = r]
               ELSE chat
    /\ UNCHANGED <<scenario, trace, Logs, log0, run>>

\* coords = geocode_venue(venue_name); no coordinates are answered 404.
Geocode(r) ==
    /\ req[r].pc = "geocode"
    /\ \E reply \in GeoReplies :
        /\ req' = [req EXCEPT ![r] =
                     IF geocode_venue(reply) = None THEN Respond(req[r], 404, None)
                     ELSE [@ EXCEPT !.pc = "search", !.coords = geocode_venue(reply)]]
        /\ Touched(r, "geocoder",
                   Got(reply, IF reply.data = <<>> THEN "nomatch" ELSE "match"))
    /\ UNCHANGED <<chat, scenario, before, Logs, log0, run>>

\* live_data = fetch_live_data(venue_name)
Search(r) ==
    /\ req[r].pc = "search"
    /\ \E reply \in SearchReplies :
        /\ req' = [req EXCEPT ![r].pc = "forecast",
                              ![r].live_data = Some(fetch_live_data(reply))]
        /\ Touched(r, "search", Got(reply, "page"))
    /\ UNCHANGED <<chat, scenario, before, Logs, log0, run>>

\* analyze_venue: the completion call; when it raises, the except clause
\* raises HTTPException(500), which is the response.
Forecast(r) ==
    /\ req[r].pc = "forecast"
    /\ \E reply \in LlmReplies :
        /\ req' = [req EXCEPT ![r] =
                     IF reply.kind = "raise" THEN Respond(req[r], 500, None)
                     ELSE [@ EXCEPT !.pc = "parse", !.content = Some(reply.content)]]
        /\ Touched(r, "llm", Got(reply, "text"))
    /\ UNCHANGED <<chat, scenario, before, Logs, log0, run>>

\* analyze_venue: the forecast is parsed from the content and returned as
\* traffic_result; a failure is answered 500.
ForecastParse(r) ==
    /\ req[r].pc = "parse"
    /\ LET parsed == parse_forecast(req[r].content[1])
       IN  req' = [req EXCEPT ![r] =
                     IF parsed = None THEN Respond(req[r], 500, None)
                     ELSE [@ EXCEPT !.pc = "metro", !.traffic_result = parsed]]
    /\ UNCHANGED <<chat, scenario, trace, before, Logs, log0, run>>

\* Metro with one more attempt after a call that raised.
MetroRetry(r) ==
    /\ req[r].pc = "metro"
    /\ \E reply \in MetroReplies :
        /\ req' = [req EXCEPT ![r] =
                     IF reply.kind = "raise" /\ "transit" \notin Endpoints(r) THEN @
                     ELSE [@ EXCEPT !.pc = "weather",
                                    !.metro_result = Some(fetch_nearest_metro(reply))]]
        /\ Touched(r, "transit",
                   Got(reply, IF reply.elements = <<>> THEN "none" ELSE "stations"))
    /\ UNCHANGED <<chat, scenario, before, Logs, log0, run>>

\* metro_result = fetch_nearest_metro(lat, lon)
Metro(r) ==
    /\ req[r].pc = "metro"
    /\ \E reply \in MetroReplies :
        /\ req' = [req EXCEPT ![r].pc = "weather",
                              ![r].metro_result = Some(fetch_nearest_metro(reply))]
        /\ Touched(r, "transit",
                   Got(reply, IF reply.elements = <<>> THEN "none" ELSE "stations"))
    /\ UNCHANGED <<chat, scenario, before, Logs, log0, run>>

\* weather_result = fetch_weather(lat, lon); without the key no call is made.
WeatherStep(r) ==
    /\ req[r].pc = "weather"
    /\ \E reply \in WeatherReplies :
        /\ req' = [req EXCEPT ![r].pc = "token",
                              ![r].weather_result =
                                  Some(fetch_weather(scenario.weather_key, reply))]
        /\ IF scenario.weather_key
           THEN Touched(r, "weather",
                        Got(reply, IF reply.cod = 200 THEN "report" ELSE "refused"))
           ELSE trace' = trace
    /\ UNCHANGED <<chat, scenario, before, Logs, log0, run>>

\* fetch_mappls_traffic, first half: token = get_mappls_token(); without a
\* token the function returns at once.
Token(r) ==
    /\ req[r].pc = "token"
    /\ \E reply \in TokenReplies :
        /\ req' = [req EXCEPT ![r] =
                     IF get_mappls_token(reply) = None
                     THEN [@ EXCEPT !.pc = "merge", !.mappls_traffic = mappls_no_token]
                     ELSE [@ EXCEPT !.pc = "route", !.token = get_mappls_token(reply)]]
        /\ Touched(r, "token",
                   Got(reply, IF reply.has_token THEN "token" ELSE "notoken"))
    /\ UNCHANGED <<chat, scenario, before, Logs, log0, run>>

\* fetch_mappls_traffic, second half: the routing call and its result.
RouteStep(r) ==
    /\ req[r].pc = "route"
    /\ \E reply \in RouteReplies :
        /\ req' = [req EXCEPT ![r].pc = "merge",
                              ![r].mappls_traffic = mappls_route_result(reply)]
        /\ Touched(r, "route",
                   Got(reply, IF reply.status # 200 THEN "refused"
                              ELSE IF reply.routes = <<>> THEN "noroutes"
                              ELSE "routes"))
    /\ UNCHANGED <<chat, scenario, before, Logs, log0, run>>

\* result = {**traffic_result, ...}.  mappls_traffic.get on None raises
\* AttributeError outside any try: the server answers 500.
Merge(r) ==
    /\ req[r].pc = "merge"
    /\ LET f == req[r]
       IN  req' = [req EXCEPT ![r] =
                     IF f.mappls_traffic = None THEN Respond(f, 500, None)
                     ELSE [f EXCEPT !.pc = "read",
                                    !.result = Some(merge_result(f.traffic_result[1],
                                        f.coords[1], f.metro_result[1],
                                        f.weather_result[1], f.mappls_traffic[1]))]]
    /\ UNCHANGED <<chat, scenario, trace, before, Logs, log0, run>>

\* The read half of the append: inputs = the existing array, or [].
ReadLog(r) ==
    /\ req[r].pc = "read"
    /\ req' = [req EXCEPT ![r].pc = "open", ![r].inputs = Some(read_log(inputFile))]
    /\ Touched(r, "input.json:read", inputFile.kind)
    /\ UNCHANGED <<chat, scenario, before, Logs, log0, run>>

\* open("data/input.json", "w") truncates the file; when it raises, the
\* except clause of analyze logs the error and the handler goes on to return.
OpenLog(r) ==
    /\ req[r].pc = "open"
    /\ \E ok \in IoOutcomes :
        /\ req' = [req EXCEPT ![r].pc = IF ok THEN "dump" ELSE "return"]
        /\ inputFile' = IF ok THEN EmptyFile ELSE inputFile
        /\ Touched(r, "input.json:open", IF ok THEN "ok" ELSE "raise")
    /\ UNCHANGED <<chat, scenario, before, eventLog, appended, outputFile, log0, run>>

\* DumpLog without the except clause of analyze: a failed write is answered
\* 500.
DumpLogUncaught(r) ==
    /\ req[r].pc = "dump"
    /\ \E ok \in IoOutcomes :
        /\ req' = [req EXCEPT ![r] =
                     IF ok THEN [@ EXCEPT !.pc = "audit"] ELSE Respond(@, 500, None)]
        /\ IF ok
           THEN /\ inputFile' \in
                       dump_outcomes(inputFile, req[r].inputs[1], req[r].result[1])
                /\ appended' = Append(appended, req[r].result[1])
           ELSE /\ inputFile' = CorruptFile
                /\ appended' = appended
        /\ Touched(r, "input.json:dump", IF ok THEN "ok" ELSE "raise")
    /\ UNCHANGED <<chat, scenario, before, eventLog, outputFile, log0, run>>

\* json.dump(inputs, f) and the close of the file; a failed write leaves
\* unparsable bytes and skips the audit entry.
DumpLog(r) ==
    /\ req[r].pc = "dump"
    /\ \E ok \in IoOutcomes :
        /\ req' = [req EXCEPT ![r].pc = IF ok THEN "audit" ELSE "return"]
        /\ IF ok
           THEN /\ inputFile' \in
                       dump_outcomes(inputFile, req[r].inputs[1], req[r].result[1])
                /\ appended' = Append(appended, req[r].result[1])
           ELSE /\ inputFile' = CorruptFile
                /\ appended' = appended
        /\ Touched(r, "input.json:dump", IF ok THEN "ok" ELSE "raise")
    /\ UNCHANGED <<chat, scenario, before, eventLog, outputFile, log0, run>>

\* log_entry of analyze, without its timestamp: None when building it raises
\* (traffic_prediction holds a value that has no get).
audit_entry(venue_name, traffic_result, mappls_traffic, weather_result) ==
    LET tp == dict_get(traffic_result, "traffic_prediction")
    IN  IF tp # None /\ tp[1].shape = "scalar" THEN None
        ELSE Some([venue |-> venue_name,
                   severity |-> IF tp # None /\ tp[1].shape = "dict_sev"
                                THEN Some("HIGH") ELSE None,
                   congestion_level |-> dict_get(mappls_traffic, "congestion_level"),
                   weather |-> dict_get(weather_result, "condition")])

\* The audit line: appended to data/event_log.jsonl unless building the
\* entry or the write raises; either exception is logged and swallowed.
Audit(r) ==
    /\ req[r].pc = "audit"
    /\ LET f == req[r]
           entry == audit_entry(f.venue_name[1], f.traffic_result[1],
                                f.mappls_traffic[1], f.weather_result[1])
       IN  IF entry = None
           THEN /\ eventLog' = eventLog
                /\ trace' = trace
           ELSE \E ok \in IoOutcomes :
                   /\ eventLog' = IF ok THEN Append(eventLog, entry[1]) ELSE eventLog
                   /\ Touched(r, "event_log.jsonl:append", IF ok THEN "ok" ELSE "raise")
    /\ req' = [req EXCEPT ![r].pc = "return"]
    /\ UNCHANGED <<chat, scenario, before, inputFile, appended, outputFile, log0, run>>

\* return result
Return(r) ==
    /\ req[r].pc = "return"
    /\ req' = [req EXCEPT ![r] = Respond(req[r], 200, req[r].result)]
    /\ UNCHANGED <<chat, scenario, trace, before, Logs, log0, run>>

\* ------------------------------------------------------ the decision script

RunStart ==
    /\ run.pc \in Stopped
    /\ run.runs < MaxRuns
    /\ Busy = 0
    /\ scenario.chat => chat.pc = "idle"
    /\ run' = [NewRun EXCEPT !.pc = "load", !.runs = run.runs + 1,
                             !.before = Some(outputFile)]
    /\ UNCHANGED <<chat, scenario, req, trace, before, Logs, log0>>

\* input_data = load_input(); an exception ends the script.
RunLoad ==
    /\ run.pc = "load"
    /\ run' = IF load_input(inputFile) = None
              THEN Exit("failed")
              ELSE [run EXCEPT !.pc = "generate", !.input_data = load_input(inputFile)]
    /\ UNCHANGED <<chat, scenario, req, trace, before, Logs, log0>>

\* generate_decision: the completion call
RunGenerate ==
    /\ run.pc = "generate"
    /\ \E reply \in DecisionReplies :
        run' = IF reply.kind = "raise"
               THEN Exit("failed")
               ELSE [run EXCEPT !.pc = "parse", !.content = Some(reply.content)]
    /\ UNCHANGED <<chat, scenario, req, trace, before, Logs, log0>>

\* generate_decision: the decision is parsed from the content
RunParse ==
    /\ run.pc = "parse"
    /\ run' = IF parse_decision(run.content[1]) = None
              THEN Exit("failed")
              ELSE [run EXCEPT !.pc = "read", !.decision = parse_decision(run.content[1])]
    /\ UNCHANGED <<chat, scenario, req, trace, before, Logs, log0>>

\* save_output: the read half
RunRead ==
    /\ run.pc = "read"
    /\ run' = [run EXCEPT !.pc = "open", !.outputs = Some(read_log(outputFile))]
    /\ UNCHANGED <<chat, scenario, req, trace, before, Logs, log0>>

\* save_output: open(OUTPUT_PATH, "w"); nothing catches its exception.
RunOpen ==
    /\ run.pc = "open"
    /\ \E ok \in IoOutcomes :
        /\ run' = IF ok THEN [run EXCEPT !.pc = "dump"] ELSE Exit("failed")
        /\ outputFile' = IF ok THEN EmptyFile ELSE outputFile
    /\ UNCHANGED <<chat, scenario, req, trace, before, inputFile, eventLog, appended, log0>>

\* save_output: json.dump(outputs, f)
RunDump ==
    /\ run.pc = "dump"
    /\ \E ok \in IoOutcomes :
        /\ run' = IF ok THEN Exit("done") ELSE Exit("failed")
        /\ outputFile' \in IF ok
                           THEN dump_outcomes(outputFile, run.outputs[1], run.decision[1])
                           ELSE {CorruptFile}
    /\ UNCHANGED <<chat, scenario, req, trace, before, inputFile, eventLog, appended, log0>>

\* ------------------------------------------------------ the chat front end

Service == <<scenario, req, trace, before, Logs, log0, run>>

\* button_handler, "ask": rag_mode is set.
AskButton ==
    /\ chat.pc = "idle"
    /\ run.pc \in Stopped
    /\ chat.turns < MaxTurns
    /\ ~chat.rag_mode
    /\ chat' = [chat EXCEPT !.rag_mode = TRUE]
    /\ UNCHANGED Service

\* handle_message without rag_mode: the user is sent to the control panel.
PlainMessage ==
    /\ chat.pc = "idle"
    /\ run.pc \in Stopped
    /\ chat.turns < MaxTurns
    /\ ~chat.rag_mode
    /\ chat' = [chat EXCEPT !.turns = @ + 1, !.calls = <<>>, !.asked = <<>>,
                            !.replies = <<>>,
                            !.sent = Some(<<"Please use the control panel">>)]
    /\ UNCHANGED Service

\* handle_message in rag_mode, send_action("typing") raising: the handler
\* ends before any query, rag_mode as it was.
TypingRaises ==
    /\ chat.pc = "idle"
    /\ run.pc \in Stopped
    /\ chat.turns < MaxTurns
    /\ chat.rag_mode
    /\ chat' = [chat EXCEPT !.turns = @ + 1, !.calls = <<>>, !.asked = <<>>,
                            !.replies = <<>>, !.sent = None]
    /\ UNCHANGED Service

\* handle_message in rag_mode: the context is loaded and the model queried.
Query ==
    /\ chat.pc = "idle"
    /\ run.pc \in Stopped
    /\ chat.turns < MaxTurns
    /\ chat.rag_mode
    /\ \E text \in UserTexts, reply \in ChatReplies :
        LET answer == query_openrouter(reply)
            loaded == load_context(inputFile, outputFile)
        IN  chat' = [chat EXCEPT
                        !.turns = @ + 1,
                        !.user_text = Some(text),
                        !.context = Some(loaded),
                        !.ai_response = Some(answer),
                        !.calls = <<"llm">>,
                        !.asked = <<[user_query |-> text, context |-> loaded]>>,
                        !.replies = <<answer>>,
                        !.sent = None,
                        !.venue = IF has_tag(answer)
                                  THEN Some(venue_to_analyze(answer)) ELSE None,
                        !.pc = IF has_tag(answer) THEN "posted" ELSE "reply"]
    /\ UNCHANGED Service

\* requests.post raises (no connection, or no answer within the timeout,
\* in which case the service goes on with the request): the except clause
\* makes the error message the response.
PostRaises ==
    /\ chat.pc \in {"posted", "wait"}
    /\ chat' = [chat EXCEPT !.pc = "reply", !.calls = Append(@, "analyze"),
                            !.ai_response = Some(<<"System Error: Unable to complete live analysis">>)]
    /\ UNCHANGED Service

\* PostAnswered with the tag check applied to the second reply as well: a
\* reply that holds the tag again triggers another analysis.
PostAnsweredAgain ==
    /\ chat.pc = "wait"
    /\ req[chat.request].pc = "done"
    /\ IF req[chat.request].status = 200
       THEN \E reply \in ChatReplies :
               LET answer == query_openrouter(reply)
               IN  chat' = [chat EXCEPT
                               !.pc = IF has_tag(answer) THEN "posted" ELSE "reply",
                               !.venue = IF has_tag(answer)
                                         THEN Some(venue_to_analyze(answer)) ELSE @,
                               !.context = Some(load_context(inputFile, outputFile)),
                               !.ai_response = Some(answer),
                               !.calls = @ \o <<"analyze", "llm">>,
                               !.asked = Append(@,
                                   [user_query |-> chat.user_text[1],
                                    context |-> load_context(inputFile, outputFile)]),
                               !.replies = Append(@, answer)]
       ELSE chat' = [chat EXCEPT !.pc = "reply", !.calls = Append(@, "analyze"),
                                !.ai_response = Some(<<"Analysis failed">>)]
    /\ UNCHANGED Service

\* PostAnswered without the reload: the second query is made with the
\* context the first one had.
PostAnsweredStale ==
    /\ chat.pc = "wait"
    /\ req[chat.request].pc = "done"
    /\ IF req[chat.request].status = 200
       THEN \E reply \in ChatReplies :
               LET answer == query_openrouter(reply)
               IN  chat' = [chat EXCEPT
                               !.pc = "reply",
                               !.ai_response = Some(answer),
                               !.calls = @ \o <<"analyze", "llm">>,
                               !.asked = Append(@,
                                   [user_query |-> chat.user_text[1],
                                    context |-> chat.context[1]]),
                               !.replies = Append(@, answer)]
       ELSE chat' = [chat EXCEPT !.pc = "reply", !.calls = Append(@, "analyze"),
                                !.ai_response = Some(<<"Analysis failed">>)]
    /\ UNCHANGED Service

\* The service has answered the POST: on 200 the context is reloaded and
\* the model queried again; otherwise the response reports the failure.
PostAnswered ==
    /\ chat.pc = "wait"
    /\ req[chat.request].pc = "done"
    /\ IF req[chat.request].status = 200
       THEN \E reply \in ChatReplies :
               LET answer == query_openrouter(reply)
               IN  chat' = [chat EXCEPT
                               !.pc = "reply",
                               !.context = Some(load_context(inputFile, outputFile)),
                               !.ai_response = Some(answer),
                               !.calls = @ \o <<"analyze", "llm">>,
                               !.asked = Append(@,
                                   [user_query |-> chat.user_text[1],
                                    context |-> load_context(inputFile, outputFile)]),
                               !.replies = Append(@, answer)]
       ELSE chat' = [chat EXCEPT !.pc = "reply", !.calls = Append(@, "analyze"),
                                !.ai_response = Some(<<"Analysis failed">>)]
    /\ UNCHANGED Service

\* Reply leaving rag_mode as it is.
ReplyKeepsMode ==
    /\ chat.pc = "reply"
    /\ \E ok \in BOOLEAN :
        chat' = IF ok
                THEN [chat EXCEPT !.pc = "log", !.sent = chat.ai_response]
                ELSE EndTurn(chat)
    /\ UNCHANGED Service

\* reply_text(ai_response), then rag_mode = False; when the send raises the
\* handler ends there.
Reply ==
    /\ chat.pc = "reply"
    /\ \E ok \in BOOLEAN :
        chat' = IF ok
                THEN [chat EXCEPT !.pc = "log", !.sent = chat.ai_response,
                                  !.rag_mode = FALSE]
                ELSE EndTurn(chat)
    /\ UNCHANGED Service

\* The chat log entry; a failed write is logged and swallowed.
LogChat ==
    /\ chat.pc = "log"
    /\ \E ok \in BOOLEAN :
        chat' = IF ok
                THEN [EndTurn(chat) EXCEPT
                         !.log = Append(@, [user_query |-> chat.user_text[1],
                                            assistant_response |-> chat.ai_response[1]])]
                ELSE EndTurn(chat)
    /\ UNCHANGED Service

\* -------------------------------------------------------------------- Next

Next ==
    \/ \E r \in Reqs : Start(r)
    \/ \E r \in Reqs : Geocode(r)
    \/ \E r \in Reqs : Search(r)
    \/ \E r \in Reqs : Forecast(r)
    \/ \E r \in Reqs : ForecastParse(r)
    \/ \E r \in Reqs : Metro(r)
    \/ \E r \in Reqs : WeatherStep(r)
    \/ \E r \in Reqs : Token(r)
    \/ \E r \in Reqs : RouteStep(r)
    \/ \E r \in Reqs : Merge(r)
    \/ \E r \in Reqs : ReadLog(r)
    \/ \E r \in Reqs : OpenLog(r)
    \/ \E r \in Reqs : DumpLog(r)
    \/ \E r \in Reqs : Audit(r)
    \/ \E r \in Reqs : Return(r)
    \/ RunStart
    \/ RunLoad
    \/ RunGenerate
    \/ RunParse
    \/ RunRead
    \/ RunOpen
    \/ RunDump

Spec == Init /\ [][Next]_vars

SpecSeq == InitSeq /\ [][Next]_vars

SpecRace == InitRace /\ [][Next]_vars

SpecSweep == InitSweep /\ [][Next]_vars

NextChat ==
    \/ Next
    \/ AskButton
    \/ PlainMessage
    \/ TypingRaises
    \/ Query
    \/ PostRaises
    \/ PostAnswered
    \/ Reply
    \/ LogChat

SpecChat == InitChat /\ [][NextChat]_vars

\* ------------------------------------------------------------------ claims

Route3(r) == [i \in 1..Len(trace[r]) |-> trace[r][i].to]

\* No handler is under way.
Quiet == \A r \in Reqs : req[r].pc \in {"idle", "done"}

ObservationKeys == ForecastKeys \cup AdapterKeys

\* The bodies of the requests answered 200, in request order.
RECURSIVE ServedUpTo(_)
ServedUpTo(n) ==
    IF n = 0 THEN <<>>
    ELSE IF req[n].status = 200 THEN Append(ServedUpTo(n - 1), req[n].result[1])
    ELSE ServedUpTo(n - 1)

Served == ServedUpTo(MaxReq)

\* C1: a request whose geocoding succeeded and whose forecast parsed with
\* all its groups, and whose log write did not fail, ends answered 200 with
\* the merged record in the observation log, whatever the metro, weather and
\* routing adapters returned.
C1_PartialSuccess ==
    [][\A r \in Reqs :
          (/\ req[r].traffic_result # None
           /\ ForecastKeys \subseteq DOMAIN req[r].traffic_result[1]
           /\ req'[r].pc = "done"
           /\ "raise" \notin GotFrom(r, "input.json:open") \cup GotFrom(r, "input.json:dump"))
          => /\ req'[r].status = 200
             /\ req'[r].result # None
             /\ inputFile'.kind = "list"
             /\ req'[r].result[1] \in Range(inputFile'.val)]_vars

\* C2: after a failed token acquisition fetch_mappls_traffic has made no
\* routing call and has returned a value its caller can read fields from.
C2_TokenFailureSkipped ==
    \A r \in Reqs :
        (req[r].pc = "merge" /\ GotFrom(r, "token") \cap {"raise", "notoken"} # {})
        => /\ "route" \notin Endpoints(r)
           /\ req[r].mappls_traffic # None

\* C3: the append is an unguarded read-then-rewrite: once the handlers have
\* finished, the log is what the last writer wrote, its own read plus its
\* record, so it ends with the last writer's record and may hold fewer
\* records than were appended (or the unparsable overlay of two writes).
C3_UnguardedAppend ==
    (Quiet /\ appended # <<>>)
    => \/ inputFile = CorruptFile
       \/ /\ inputFile.kind = "list"
          /\ Len(inputFile.val) >= 1
          /\ Len(inputFile.val) <= Len(read_log(log0)) + Len(appended)
          /\ inputFile.val[Len(inputFile.val)] = appended[Len(appended)]
          /\ Range(inputFile.val) \subseteq Range(read_log(log0)) \cup Range(appended)

\* C3 witness: from an empty log two requests are answered 200, two distinct
\* records were written, and the log holds only the second writer's.
C3_LostAppend ==
    /\ log0 \in {AbsentFile, ListFile(<<>>)}
    /\ \E a, b \in Reqs : a # b /\ req[a].status = 200 /\ req[b].status = 200
    /\ Quiet
    /\ Len(appended) = 2
    /\ appended[1] # appended[2]
    /\ inputFile = ListFile(<<appended[2]>>)

\* C4: served one after another from an absent or empty log, the requests
\* answered 200 leave exactly their records in the log, in request order, and
\* the record the decision script loads is the most recent one.
C4_SequentialAppend ==
    (Quiet /\ (log0 = AbsentFile \/ log0 = ListFile(<<>>)))
    => /\ read_log(inputFile) = Served
       /\ Served # <<>> =>
            /\ inputFile.kind = "list"
            /\ load_input(inputFile) = Some(Served[Len(Served)])
       /\ run.input_data # None => run.input_data = Some(Served[Len(Served)])

\* C4 witness: two requests with different records, both in the log in
\* order, and the script has loaded the second.
C4_TwoInOrder ==
    /\ log0 = AbsentFile
    /\ Quiet
    /\ Len(Served) = 2
    /\ Served[1] # Served[2]
    /\ inputFile = ListFile(Served)
    /\ run.pc = "generate"
    /\ run.input_data = Some(Served[2])

\* C5: every record returned with 200, and every record written to the
\* observation log, has all eight top-level keys of the Observation Record.
C5_AllKeys ==
    /\ \A r \in Reqs :
          req[r].status = 200 =>
              req[r].result # None /\ ObservationKeys \subseteq DOMAIN req[r].result[1]
    /\ \A i \in 1..Len(appended) : ObservationKeys \subseteq DOMAIN appended[i]

EmptyLog(file) == file.kind = "absent" \/ file = ListFile(<<>>)

\* The content holds a JSON object somewhere.
ContainsObject(content) ==
    \E i, j \in 1..Len(content) : i < j /\ json_loads(SubSeq(content, i, j)) # None

\* C6: the decision script gets past load_input only with a non-empty
\* observation log, reaches save_output only with loaded input and a decision
\* parsed from a reply that holds a JSON object, and a run that ends before
\* save_output leaves the decision log as it found it.
C6_DecisionAborts ==
    /\ run.pc \in {"generate", "parse", "read", "open", "dump"} =>
          /\ ~EmptyLog(inputFile)
          /\ run.input_data # None
    /\ run.pc \in {"read", "open", "dump"} =>
          /\ run.content # None
          /\ ContainsObject(run.content[1])
          /\ run.decision # None
    /\ run.pc \in {"load", "generate", "parse"} => outputFile = run.before[1]
    /\ (run.pc = "failed" /\ run.at \in {"load", "generate", "parse"}) =>
          outputFile = run.before[1]
    /\ run.pc = "done" => run.at = "dump"

\* C6 witness: a run has failed in load_input on an empty array, and the
\* decision log is as before.
C6_AbortedOnEmptyLog ==
    /\ run.pc = "failed"
    /\ run.at = "load"
    /\ inputFile = ListFile(<<>>)
    /\ outputFile = run.before[1]

NoBracePair(content) ==
    ~ \E i, j \in 1..Len(content) :
          i < j /\ content[i] = LBrace /\ content[j] = RBrace

BraceSpan(content) ==
    SubSeq(content, Min(Positions(content, LBrace)), Max(Positions(content, RBrace)))

\* The reply has no "{"..."}" substring, or that substring is no JSON.
BadForecastReply(content) ==
    NoBracePair(content) \/ json_loads(BraceSpan(content)) = None

\* C7: a request goes past the forecast only with a reply whose "{"..."}"
\* substring parses and with exactly that parse as its forecast; a request
\* whose LLM call raised, or that ended at the LLM, is answered 500 having
\* contacted the geocoder, the search and the LLM once each and nothing else.
C7_ForecastFailureAborts ==
    \A r \in Reqs :
        /\ req[r].pc \notin {"idle", "geocode", "search", "forecast", "parse", "done"} =>
              /\ req[r].content # None
              /\ ~BadForecastReply(req[r].content[1])
              /\ req[r].traffic_result = json_loads(BraceSpan(req[r].content[1]))
        /\ (req[r].pc = "parse" /\ BadForecastReply(req[r].content[1])) =>
              Route3(r) = <<"geocoder", "search", "llm">>
        /\ ("raise" \in GotFrom(r, "llm")
              \/ (req[r].pc = "done" /\ trace[r] # <<>>
                    /\ trace[r][Len(trace[r])].to = "llm")) =>
              /\ req[r].pc = "done"
              /\ req[r].status = 500
              /\ req[r].result = None
              /\ Route3(r) = <<"geocoder", "search", "llm">>

\* C7 witness: the LLM replied with text that did not parse, and the request
\* was answered 500 after exactly the three calls.
C7_UnparsableAnswered500 ==
    \E r \in Reqs :
        /\ req[r].pc = "done"
        /\ req[r].status = 500
        /\ trace[r] = <<[to |-> "geocoder", got |-> "match"],
                        [to |-> "search", got |-> "page"],
                        [to |-> "llm", got |-> "text"]>>

\* C8: a forecast that parses but lacks a required top-level group never
\* gets past analyze_venue: no request carries it as traffic_result, none is
\* answered 200 with it, and no record lacking a group is written to the log.
C8_SchemaMismatchRejected ==
    /\ \A r \in Reqs :
          /\ req[r].traffic_result # None =>
                ForecastKeys \subseteq DOMAIN req[r].traffic_result[1]
          /\ req[r].status = 200 => ForecastKeys \subseteq DOMAIN req[r].result[1]
    /\ \A i \in 1..Len(appended) : ForecastKeys \subseteq DOMAIN appended[i]

IsBlank(venue) == \A i \in 1..Len(venue) : venue[i] = " "

\* C9: a blank venue is answered 400 with no external call made; otherwise
\* the geocoder is the first call, and a geocoder that raised or found no
\* match is answered 404 with no other call made.
C9_InputChecks ==
    \A r \in Reqs :
        /\ (req[r].request # None /\ IsBlank(req[r].request[1])) =>
              req[r].pc = "done" /\ req[r].status = 400 /\ trace[r] = <<>>
        /\ req[r].status = 400 => trace[r] = <<>> /\ IsBlank(req[r].request[1])
        /\ trace[r] # <<>> => trace[r][1].to = "geocoder"
        /\ (trace[r] # <<>> /\ trace[r][1].got \in {"raise", "nomatch"}) =>
              req[r].pc = "done" /\ req[r].status = 404 /\ Len(trace[r]) = 1
        /\ req[r].status = 404 =>
              Len(trace[r]) = 1 /\ trace[r][1].got \in {"raise", "nomatch"}
        /\ req[r].pc \notin {"idle", "done"} =>
              /\ req[r].venue_name # None
              /\ ~IsBlank(req[r].venue_name[1])
              /\ Head(req[r].venue_name[1]) # " "
              /\ req[r].venue_name[1][Len(req[r].venue_name[1])] # " "

\* C9 witness: the geocoder raised and the request was answered 404 after
\* that one call.
C9_GeocoderRaised404 ==
    \E r \in Reqs :
        /\ req[r].status = 404
        /\ trace[r] = <<[to |-> "geocoder", got |-> "raise"]>>

\* C10: a finished request was answered 200 with a complete merged record
\* (all eight top-level keys), or 400, 404 or 500 with both logs exactly as
\* they were when the request arrived.
C10_TwoOutcomes ==
    \A r \in Reqs :
        req[r].pc = "done" =>
            /\ req[r].status \in {200, 400, 404, 500}
            /\ req[r].status = 200 =>
                  /\ req[r].result # None
                  /\ ObservationKeys \subseteq DOMAIN req[r].result[1]
            /\ req[r].status # 200 =>
                  /\ req[r].result = None
                  /\ inputFile = before[r][1].obs
                  /\ eventLog = before[r][1].audit

\* A dict that reports a failure in band.
IsErrorObject(v) == "error" \in DOMAIN v

\* C11: once the adapters of a request have returned, each dict-returning
\* adapter whose call failed has handed back an in-band error object: the
\* transit and weather results carry an error field, and the routing result
\* (after a failed token request, a raised or refused routing call, or an
\* empty routes list) is an object with an error field and congestion_level
\* "UNKNOWN".
C11_AdaptersInBandErrors ==
    \A r \in Reqs :
        req[r].pc = "merge" =>
            /\ "raise" \in GotFrom(r, "transit") =>
                  IsErrorObject(req[r].metro_result[1])
            /\ GotFrom(r, "weather") \cap {"raise", "refused"} # {} =>
                  IsErrorObject(req[r].weather_result[1])
            /\ (\/ GotFrom(r, "token") \cap {"raise", "notoken"} # {}
                \/ GotFrom(r, "route") \cap {"raise", "refused", "noroutes"} # {}) =>
                  /\ req[r].mappls_traffic # None
                  /\ IsErrorObject(req[r].mappls_traffic[1])
                  /\ req[r].mappls_traffic[1].congestion_level = "UNKNOWN"

\* C12: a log file that is present but unparsable does not stop the append:
\* the read yields the empty list, and once the rewrite has completed the
\* file holds exactly one record, the new one.  This holds for the
\* observation log in analyze and for the decision log in save_output.
C12_CorruptLogDiscarded ==
    /\ \A r \in Reqs :
          [to |-> "input.json:read", got |-> "corrupt"] \in Range(trace[r]) =>
              /\ req[r].pc \in {"open", "dump"} => req[r].inputs = Some(<<>>)
              /\ "ok" \in GotFrom(r, "input.json:dump") =>
                    /\ req[r].result # None
                    /\ inputFile = ListFile(<<req[r].result[1]>>)
    /\ run.before = Some(CorruptFile) =>
          /\ run.pc \in {"open", "dump"} => run.outputs = Some(<<>>)
          /\ run.pc = "done" =>
                /\ outputFile.kind = "list"
                /\ Len(outputFile.val) = 1
                /\ \E reply \in DecisionReplies :
                      /\ reply.kind = "ok"
                      /\ parse_decision(reply.content) = Some(outputFile.val[1])

\* C12 witness: the observation log was unparsable when the request came,
\* the request was answered 200, and the log is the one-element array of
\* its record.
C12_RewrittenFromCorrupt ==
    /\ log0 = CorruptFile
    /\ \E r \in Reqs :
          /\ req[r].status = 200
          /\ [to |-> "input.json:read", got |-> "corrupt"] \in Range(trace[r])
          /\ inputFile = ListFile(<<req[r].result[1]>>)

\* The log writes of request r that raised.
FailedWrites(r) ==
    {n \in {"input.json:open", "input.json:dump", "event_log.jsonl:append"} :
        "raise" \in GotFrom(r, n)}

\* C13: a failure to write the observation log or the audit log is
\* swallowed: the handler goes on to return the merged record with 200.  The
\* observation log is then as the request found it (the open failed) or
\* unparsable (the write failed), and a failed observation write leaves the
\* audit log as it was.
C13_WriteFailureSwallowed ==
    \A r \in Reqs :
        FailedWrites(r) # {} =>
            /\ req[r].pc \in {"return", "done"}
            /\ req[r].result # None
            /\ AdapterKeys \subseteq DOMAIN req[r].result[1]
            /\ req[r].pc = "done" => req[r].status = 200
            /\ "input.json:open" \in FailedWrites(r) =>
                  inputFile = before[r][1].obs /\ eventLog = before[r][1].audit
            /\ "input.json:dump" \in FailedWrites(r) =>
                  inputFile = CorruptFile /\ eventLog = before[r][1].audit

\* C13 witness: a request answered 200 whose record is not in the
\* observation log, because writing it failed.
C13_Answered200NotLogged ==
    \E r \in Reqs :
        /\ req[r].status = 200
        /\ "input.json:dump" \in FailedWrites(r)
        /\ req[r].result[1] \notin Range(read_log(inputFile))

\* C14: in one chat turn the model is queried, at most one POST /analyze is
\* issued, and the model is queried at most once more; a second reply that
\* holds the tag again starts nothing further and is the text sent to the
\* user.
C14_RetryAtMostOnce ==
    /\ chat.calls \in {<<>>, <<"llm">>, <<"llm", "analyze">>,
                       <<"llm", "analyze", "llm">>}
    /\ Len(chat.replies) <= 2
    /\ chat.pc \in {"posted", "wait"} => chat.calls = <<"llm">>
    /\ (Len(chat.replies) = 2 /\ has_tag(chat.replies[2])) =>
          /\ chat.pc \in {"reply", "log", "idle"}
          /\ chat.pc \in {"reply", "log"} => chat.ai_response = Some(chat.replies[2])
          /\ chat.sent # None => chat.sent = Some(chat.replies[2])

\* C14 witness: a turn in which both replies held the tag: one analysis, two
\* queries, and the second reply sent as it came.
C14_SecondTagSent ==
    /\ chat.pc = "idle"
    /\ chat.calls = <<"llm", "analyze", "llm">>
    /\ has_tag(chat.replies[1])
    /\ has_tag(chat.replies[2])
    /\ chat.sent = Some(chat.replies[2])

ExternalEndpoints ==
    {"geocoder", "search", "llm", "transit", "weather", "token", "route"}

\* How many times request r has contacted an endpoint.
Contacts(r, name) == Cardinality({i \in 1..Len(trace[r]) : trace[r][i].to = name})

\* C15: within one request each external endpoint is contacted at most
\* once, whatever came back from it.
C15_NoRetry ==
    \A r \in Reqs : \A n \in ExternalEndpoints : Contacts(r, n) <= 1

\* C15 witness: a finished request whose transit, weather and routing calls
\* raised, with every endpoint contacted exactly once.
C15_FailedCallsNotRepeated ==
    \E r \in Reqs :
        /\ req[r].pc = "done"
        /\ \A n \in {"transit", "weather", "route"} : GotFrom(r, n) = {"raise"}
        /\ \A n \in ExternalEndpoints : Contacts(r, n) = 1

\* The delay the claim states, in tenths of a minute, for durations in
\* seconds: max(0, duration - duration_without_traffic), 0 without the latter.
StatedDelay(route) ==
    IF route.duration_without_traffic = None THEN 0
    ELSE Max({0, route.duration - route.duration_without_traffic[1]}) \div 6

\* The class the claim states for a delay in tenths of a minute.
StatedCongestion(delay10) ==
    CASE delay10 > 100 -> "CRITICAL"
      [] delay10 > 50 /\ delay10 <= 100 -> "HIGH"
      [] delay10 > 20 /\ delay10 <= 50 -> "MODERATE"
      [] delay10 <= 20 -> "LOW"

RouteResult(route) ==
    mappls_route_result([kind |-> "ok", status |-> 200, routes |-> <<route>>])[1]

\* C16: for every route the adapter may be given, the delay it reports is
\* max(0, duration - duration_without_traffic) and the congestion level is
\* the strict-threshold class of that delay; 42 min against 30 min is a delay
\* of 12 and CRITICAL; delays of exactly 10, 5 and 2 are HIGH, MODERATE and
\* LOW.  Every routing result a request holds is classified so.
C16_CongestionThresholds ==
    /\ \A reply \in RouteReplies :
          (reply.kind = "ok" /\ reply.status = 200 /\ reply.routes # <<>>) =>
              LET res == mappls_route_result(reply)[1]
              IN  /\ res.traffic_delay_min = StatedDelay(reply.routes[1])
                  /\ res.congestion_level = StatedCongestion(StatedDelay(reply.routes[1]))
    /\ RouteResult(Route(21000, 2520, Some(1800))).traffic_delay_min = 120
    /\ RouteResult(Route(21000, 2520, Some(1800))).congestion_level = "CRITICAL"
    /\ RouteResult(Route(21000, 2400, Some(1800))).congestion_level = "HIGH"
    /\ RouteResult(Route(21000, 2100, Some(1800))).congestion_level = "MODERATE"
    /\ RouteResult(Route(21000, 1920, Some(1800))).congestion_level = "LOW"
    /\ \A r \in Reqs :
          (req[r].mappls_traffic # None
              /\ "traffic_delay_min" \in DOMAIN req[r].mappls_traffic[1]) =>
              /\ req[r].mappls_traffic[1].traffic_delay_min >= 0
              /\ req[r].mappls_traffic[1].congestion_level =
                    StatedCongestion(req[r].mappls_traffic[1].traffic_delay_min)

\* C16 witness: a request answered with a record whose delay of exactly
\* 10 min is classified HIGH, and the record is in the log.
C16_BoundaryDelays ==
    \E r \in Reqs :
        /\ req[r].status = 200
        /\ req[r].result[1].mappls_live_traffic.traffic_delay = Some(100)
        /\ req[r].result[1].mappls_live_traffic.congestion = Some("HIGH")
        /\ inputFile = ListFile(<<req[r].result[1]>>)

\* The impact the claim states for a condition word and a temperature.
StatedImpact(word, temp) ==
    LET severe == {"thunderstorm", "tornado"}
        wet == {"rain", "drizzle", "snow"}
        dim == {"mist", "fog", "haze", "smoke"}
    IN  CASE word \in severe -> "SEVERE"
          [] word \in wet -> "HIGH"
          [] word \in dim -> "MODERATE"
          [] word \notin severe \cup wet \cup dim /\ temp > 38 -> "LOW-MODERATE"
          [] word \notin severe \cup wet \cup dim /\ temp <= 38 -> "LOW"

\* C17: for every weather report the adapter may be given, the impact is
\* the one the priority table gives for the report's condition word and
\* temperature; rain is HIGH at any temperature, a clear sky at exactly 38 is
\* LOW and at 39 LOW-MODERATE.  Every weather result a request holds agrees
\* with the table.
C17_WeatherImpactTable ==
    /\ \A reply \in WeatherReplies :
          (reply.kind = "ok" /\ reply.cod = 200) =>
              fetch_weather(TRUE, reply).traffic_weather_impact
                  = StatedImpact(lower(reply.main), reply.temp)
    /\ \A t \in {25, 38, 39} :
          fetch_weather(TRUE, Weather("Rain", t)).traffic_weather_impact = "HIGH"
    /\ fetch_weather(TRUE, Weather("Clear", 38)).traffic_weather_impact = "LOW"
    /\ fetch_weather(TRUE, Weather("Clear", 39)).traffic_weather_impact = "LOW-MODERATE"
    /\ \A r \in Reqs :
          (req[r].weather_result # None
              /\ "traffic_weather_impact" \in DOMAIN req[r].weather_result[1]) =>
              req[r].weather_result[1].traffic_weather_impact
                  = StatedImpact(lower(req[r].weather_result[1].condition),
                                 req[r].weather_result[1].temperature_c)

\* C17 witness: a request answered with rain at 39 degrees rated HIGH, the
\* record in the log.
C17_RainInHeatIsHigh ==
    \E r \in Reqs :
        /\ req[r].status = 200
        /\ req[r].result[1].weather.condition = "Rain"
        /\ req[r].result[1].weather.temperature_c = 39
        /\ req[r].result[1].weather.traffic_weather_impact = "HIGH"
        /\ inputFile = ListFile(<<req[r].result[1]>>)

\* C18: for every non-empty list of transit points the adapter may be
\* given, the station it reports is an element of the list, no element is
\* strictly closer, and every element before it in the list is strictly
\* farther.  Every station a request holds is one reported so for some list.
C18_NearestMetroFirstMinimum ==
    /\ \A reply \in MetroReplies :
          (reply.kind = "ok" /\ reply.elements # <<>>) =>
              LET E == reply.elements
                  res == fetch_nearest_metro(reply)
              IN  \E i \in 1..Len(E) :
                      /\ res.osm_id = Some(E[i].id)
                      /\ res.station_name = E[i].name
                      /\ res.distance_km = Some(E[i].dist)
                      /\ \A j \in 1..Len(E) : E[j].dist >= E[i].dist
                      /\ \A j \in 1..(i - 1) : E[j].dist > E[i].dist
    /\ \A r \in Reqs :
          (req[r].metro_result # None /\ "stations" \in GotFrom(r, "transit")) =>
              \E reply \in MetroReplies :
                  /\ reply.kind = "ok"
                  /\ reply.elements # <<>>
                  /\ req[r].metro_result[1] = fetch_nearest_metro(reply)

\* C18 witness: a request answered with the third station of the list as
\* the nearest, at the smaller distance: the two before it were farther.
C18_ThirdStationNearest ==
    \E r \in Reqs :
        /\ req[r].status = 200
        /\ req[r].result[1].nearest_metro_station.osm_id = Some(3)
        /\ req[r].result[1].nearest_metro_station.distance_km = Some(45)

NoMetroSentinel == "No metro station found within 5km"

StepOrder ==
    <<"geocoder", "search", "llm", "transit", "weather", "token", "route",
      "input.json:read", "input.json:open", "input.json:dump",
      "event_log.jsonl:append">>

StepIndex(name) == CHOOSE i \in 1..Len(StepOrder) : StepOrder[i] = name

\* The steps of request r follow the stated order: each lies later in it
\* than the one before.
InStepOrder(r) ==
    \A i \in 1..(Len(trace[r]) - 1) :
        StepIndex(trace[r][i].to) < StepIndex(trace[r][i + 1].to)

\* C20: the steps of a request follow the stated order; the observation
\* log is touched only after every adapter has returned; the audit line is
\* appended only after the observation log was written, so a failed
\* observation write adds no audit line; and a request answered 200 whose
\* writes did not fail has added exactly one observation record and exactly
\* one audit line.
C20_StepOrderAndAudit ==
    \A r \in Reqs :
        /\ InStepOrder(r)
        /\ "input.json:read" \in Endpoints(r) =>
              /\ {"geocoder", "search", "llm", "transit", "token"} \subseteq Endpoints(r)
              /\ scenario.weather_key => "weather" \in Endpoints(r)
              /\ "token" \in GotFrom(r, "token") => "route" \in Endpoints(r)
        /\ "event_log.jsonl:append" \in Endpoints(r) =>
              "ok" \in GotFrom(r, "input.json:dump")
        /\ FailedWrites(r) \cap {"input.json:open", "input.json:dump"} # {} =>
              eventLog = before[r][1].audit
        /\ (req[r].status = 200 /\ FailedWrites(r) = {}) =>
              /\ inputFile =
                    ListFile(Append(read_log(before[r][1].obs), req[r].result[1]))
              /\ Len(eventLog) = Len(before[r][1].audit) + 1
              /\ SubSeq(eventLog, 1, Len(before[r][1].audit)) = before[r][1].audit

\* The observation records a loaded context holds.
ContextRecords(c) == IF c.input = None THEN {} ELSE Range(c.input[1].val)

\* The handler is past its queries: the response is about to be sent or has
\* been sent.
Answering == chat.pc \in {"reply", "log"}

\* The turn asked for an analysis and queried the model a second time.
Requeried == Answering /\ chat.calls = <<"llm", "analyze", "llm">>

\* The turn asked for an analysis and did not query the model again.
NotRequeried == Answering /\ chat.calls = <<"llm", "analyze">>

AnalysisFailureTexts ==
    {<<"Analysis failed">>, <<"System Error: Unable to complete live analysis">>}

MessageArrives == chat'.turns = chat.turns + 1

\* The entry handle_message writes to data/chat_log.jsonl, without its
\* timestamp, user and model name.
ChatLogEntry == [user_query |-> chat.user_text[1], assistant_response |-> chat.ai_response[1]]

IsPrefix(s, t) == Len(s) <= Len(t) /\ \A i \in 1..Len(s) : t[i] = s[i]

\* C22: when the log held K >= 1 records before two overlapping requests
\* wrote to it, the log they leave, once both handlers have finished, is a
\* JSON array that still begins with those K records.
C22_HistoryKept ==
    (Quiet /\ log0.kind = "list" /\ Len(log0.val) >= 1 /\ Len(appended) = 2)
    => /\ inputFile.kind = "list"
       /\ IsPrefix(log0.val, inputFile.val)

\* The handler of request r holds a merged record.
Merged(r) == req[r].pc \in {"read", "open", "dump", "audit", "return"}

\* C23: in every merged record the four adapter keys hold the values derived
\* from the geocoder's coordinates and the adapters' results, whether or not
\* the forecast object has keys of those names, and every other key holds the
\* forecast's value; no record answered or written holds a model-supplied
\* value under an adapter key.
C23_AdapterKeysReplace ==
    /\ \A r \in Reqs :
        Merged(r) =>
            LET f == req[r]
                rec == f.result[1]
                tr == f.traffic_result[1]
            IN  /\ DOMAIN rec = DOMAIN tr \cup AdapterKeys
                /\ rec.location = [latitude |-> f.coords[1].lat,
                                   longitude |-> f.coords[1].lon]
                /\ rec.nearest_metro_station = f.metro_result[1]
                /\ rec.weather = f.weather_result[1]
                /\ rec.mappls_live_traffic = mappls_view(f.mappls_traffic[1])
                /\ \A k \in DOMAIN tr \ AdapterKeys : rec[k] = tr[k]
    /\ \A rec \in Range(appended) \cup {req[r].result[1] : r \in {q \in Reqs : req[q].result # None}} :
        \A k \in AdapterKeys :
            /\ k \in DOMAIN rec
            /\ "origin" \notin DOMAIN rec[k]

\* C23 witness: the forecast object had all four adapter keys, the record
\* was written to the log, and under each of them the record holds the
\* adapter's value, not the model's.
C23_ModelKeysReplaced ==
    \E r \in Reqs :
        /\ req[r].pc = "return"
        /\ AdapterKeys \subseteq DOMAIN req[r].traffic_result[1]
        /\ inputFile.kind = "list"
        /\ req[r].result[1] \in Range(inputFile.val)
        /\ req[r].result[1].weather = req[r].weather_result[1]
        /\ \A k \in AdapterKeys :
              req[r].result[1][k] # req[r].traffic_result[1][k]

====
